---- MODULE Spec2Model ----
(***************************************************************************)
(* Model of the AI quiz generation route                                   *)
(*   src/src/app/api/ai-quiz/generate/route.ts  (POST)                     *)
(*                                                                         *)
(* Text is a sequence of lexical tokens.  A token stands for the           *)
(* characters it names: "fence" is the three-backtick fence marker, "json" *)
(* the word json, " " one whitespace character, "x" one character of       *)
(* prose, "[" "]" "{" "}" "," the JSON punctuation, "null" the JSON        *)
(* literal, and a member token (see Members) the member list of one        *)
(* question object, e.g. "options":["a","b","c","d"],"correct_answer":"b". *)
(* question_text is copied through unchanged by the route and is not       *)
(* represented.                                                            *)
(***************************************************************************)
EXTENDS Integers, Sequences, FiniteSets, TLC

FENCE == "fence"
WS == " "

\* ------------------------------------------------------------------------
\* Sequence helpers
\* ------------------------------------------------------------------------
SubSeqFrom(s, i) == IF i > Len(s) THEN << >> ELSE SubSeq(s, i, Len(s))

SubSeqTo(s, j) == IF j < 1 THEN << >> ELSE SubSeq(s, 1, j)

Slice(s, i, j) == IF j < i THEN << >> ELSE SubSeq(s, i, j)

\* index of the first position >= i that holds no whitespace (Len(s)+1 if none)
SkipWs(s, i) ==
  LET rest == {k \in i..Len(s) : s[k] # WS}
  IN  IF rest = {} THEN Len(s) + 1
      ELSE CHOOSE k \in rest : \A m \in rest : k <= m

\* index of the first position >= i holding token t (0 if none)
IndexFrom(s, t, i) ==
  LET hits == {k \in i..Len(s) : s[k] = t}
  IN  IF hits = {} THEN 0
      ELSE CHOOSE k \in hits : \A m \in hits : k <= m

\* ------------------------------------------------------------------------
\* Response normalizer: route.ts lines 78-81
\* ------------------------------------------------------------------------
\* .replace(/<fence>json\s*([\s\S]*?)<fence>/, "$1"): the leftmost fence
\* followed by json, whitespace skipped greedily, shortest content up to the
\* next fence.
JsonFenceStarts(s) ==
  {i \in 1..Len(s) :
      /\ s[i] = FENCE
      /\ i + 1 <= Len(s)
      /\ s[i + 1] = "json"
      /\ IndexFrom(s, FENCE, SkipWs(s, i + 2)) # 0}

StripJsonFence(s) ==
  LET starts == JsonFenceStarts(s)
  IN  IF starts = {} THEN s
      ELSE LET i == CHOOSE k \in starts : \A m \in starts : k <= m
               c == SkipWs(s, i + 2)
               j == IndexFrom(s, FENCE, c)
           IN  SubSeqTo(s, i - 1) \o Slice(s, c, j - 1) \o SubSeqFrom(s, j + 1)

\* .replace(/<fence>([\s\S]*?)<fence>/, "$1"): the leftmost fence that has a
\* later fence, shortest content.
FenceStarts(s) ==
  {i \in 1..Len(s) : s[i] = FENCE /\ IndexFrom(s, FENCE, i + 1) # 0}

StripFence(s) ==
  LET starts == FenceStarts(s)
  IN  IF starts = {} THEN s
      ELSE LET i == CHOOSE k \in starts : \A m \in starts : k <= m
               j == IndexFrom(s, FENCE, i + 1)
           IN  SubSeqTo(s, i - 1) \o Slice(s, i + 1, j - 1) \o SubSeqFrom(s, j + 1)

\* .trim()
Trim(s) ==
  LET a == SkipWs(s, 1)
      nonws == {k \in 1..Len(s) : s[k] # WS}
  IN  IF nonws = {} THEN << >>
      ELSE SubSeq(s, a, CHOOSE k \in nonws : \A m \in nonws : m <= k)

\* Normalize that trims before it strips the fences
NormalizeTrimFirst(s) == StripFence(StripJsonFence(Trim(s)))

Normalize(s) == Trim(StripFence(StripJsonFence(s)))

\* ------------------------------------------------------------------------
\* JSON values and JSON.parse over token text
\* ------------------------------------------------------------------------
\* A parsed value: null, an object (the set of keys it carries, with its
\* options array and correct_answer string when present) or an array.
JNull == [type |-> "null", keys |-> {}, options |-> << >>, correct_answer |-> "", elems |-> << >>]

JObject(keys, options, answer) ==
  [type |-> "object", keys |-> keys, options |-> options, correct_answer |-> answer, elems |-> << >>]

JArray(elems) ==
  [type |-> "array", keys |-> {}, options |-> << >>, correct_answer |-> "", elems |-> elems]

\* The member lists a member token stands for.
Members ==
  [mGood   |-> JObject({"options", "correct_answer"}, <<"a", "b", "c", "d">>, "b"),
   mOut    |-> JObject({"options", "correct_answer"}, <<"a", "b", "c", "d">>, "z"),
   mNoAns  |-> JObject({"options"}, <<"a", "b", "c", "d">>, ""),
   mEmpty  |-> JObject({"options", "correct_answer"}, <<"a", "b", "c", "d">>, ""),
   mDup    |-> JObject({"options", "correct_answer"}, <<"a", "a", "", "d">>, "a"),
   mShort  |-> JObject({"options", "correct_answer"}, <<"a", "b">>, "a"),
   mNoOpt  |-> JObject({"correct_answer"}, << >>, "a")]

MemberTokens == DOMAIN Members

\* JSON object semantics: a key given twice keeps its last value.
MergeMembers(a, b) ==
  JObject(a.keys \cup b.keys,
          IF "options" \in b.keys THEN b.options ELSE a.options,
          IF "correct_answer" \in b.keys THEN b.correct_answer ELSE a.correct_answer)

ParseFail == [ok |-> FALSE, val |-> JNull, next |-> 0]

ParseOk(v, n) == [ok |-> TRUE, val |-> v, next |-> n]

RECURSIVE ParseMembers(_, _, _)
ParseMembers(s, i, acc) ==
  LET j == SkipWs(s, i)
  IN  IF j > Len(s) THEN ParseFail
      ELSE IF s[j] \notin MemberTokens THEN ParseFail
      ELSE LET merged == MergeMembers(acc, Members[s[j]])
               k == SkipWs(s, j + 1)
           IN  IF k > Len(s) THEN ParseFail
               ELSE IF s[k] = "}" THEN ParseOk(merged, k + 1)
               ELSE IF s[k] = "," THEN ParseMembers(s, k + 1, merged)
               ELSE ParseFail

\* s[j] = "{"
ParseObject(s, j) ==
  LET k == SkipWs(s, j + 1)
  IN  IF k <= Len(s) /\ s[k] = "}" THEN ParseOk(JObject({}, << >>, ""), k + 1)
      ELSE ParseMembers(s, j + 1, JObject({}, << >>, ""))

RECURSIVE ParseValue(_, _), ParseElems(_, _, _)
ParseValue(s, i) ==
  LET j == SkipWs(s, i)
  IN  IF j > Len(s) THEN ParseFail
      ELSE IF s[j] = "null" THEN ParseOk(JNull, j + 1)
      ELSE IF s[j] = "{" THEN ParseObject(s, j)
      ELSE IF s[j] = "[" THEN
             LET k == SkipWs(s, j + 1)
             IN  IF k <= Len(s) /\ s[k] = "]" THEN ParseOk(JArray(<< >>), k + 1)
                 ELSE ParseElems(s, j + 1, << >>)
      ELSE ParseFail

ParseElems(s, i, acc) ==
  LET r == ParseValue(s, i)
  IN  IF ~r.ok THEN ParseFail
      ELSE LET k == SkipWs(s, r.next)
           IN  IF k > Len(s) THEN ParseFail
               ELSE IF s[k] = "," THEN ParseElems(s, k + 1, Append(acc, r.val))
               ELSE IF s[k] = "]" THEN ParseOk(JArray(Append(acc, r.val)), k + 1)
               ELSE ParseFail

\* JSON.parse(text): one value, nothing but whitespace around it; ~ok is the
\* SyntaxError it throws.
JsonParse(s) ==
  LET r == ParseValue(s, 1)
  IN  IF r.ok /\ SkipWs(s, r.next) > Len(s) THEN r ELSE ParseFail

\* ------------------------------------------------------------------------
\* Tolerant structure parser: route.ts lines 83-111
\* ------------------------------------------------------------------------
\* generatedOutput.replace(/}\s*{/g, "},{"): every closing brace followed,
\* across whitespace, by an opening brace gets a comma and loses the space.
RECURSIVE RepairFrom(_, _)
RepairFrom(s, i) ==
  IF i > Len(s) THEN << >>
  ELSE IF s[i] = "}" /\ SkipWs(s, i + 1) <= Len(s) /\ s[SkipWs(s, i + 1)] = "{"
       THEN <<"}", ",", "{">> \o RepairFrom(s, SkipWs(s, i + 1) + 1)
       ELSE <<s[i]>> \o RepairFrom(s, i + 1)

FixedOutput(s) == <<"[">> \o RepairFrom(s, 1) \o <<"]">>

\* generatedOutput.match(/{[^}]+}/g): scanning left to right, each "{" whose
\* next "}" lies at least one character further; the scan resumes after it.
RECURSIVE MatchesFrom(_, _)
MatchesFrom(s, i) ==
  IF i > Len(s) THEN << >>
  ELSE IF s[i] = "{" /\ IndexFrom(s, "}", i + 1) > i + 1
       THEN <<Slice(s, i, IndexFrom(s, "}", i + 1))>>
              \o MatchesFrom(s, IndexFrom(s, "}", i + 1) + 1)
       ELSE MatchesFrom(s, i + 1)

Matches(s) == MatchesFrom(s, 1)

\* `[${matches.join(",")}]`
RECURSIVE JoinWithCommas(_)
JoinWithCommas(ms) ==
  IF ms = << >> THEN << >>
  ELSE IF Len(ms) = 1 THEN ms[1]
  ELSE ms[1] \o <<",">> \o JoinWithCommas(Tail(ms))

Joined(s) == <<"[">> \o JoinWithCommas(Matches(s)) \o <<"]">>

\* TolerantParse whose third stage does not test that a match was found
TolerantParseAnyMatches(s) ==
  IF JsonParse(s).ok THEN [stage |-> 1, val |-> JsonParse(s).val]
  ELSE IF JsonParse(FixedOutput(s)).ok THEN [stage |-> 2, val |-> JsonParse(FixedOutput(s)).val]
  ELSE IF JsonParse(Joined(s)).ok THEN [stage |-> 3, val |-> JsonParse(Joined(s)).val]
  ELSE [stage |-> 0, val |-> JNull]

\* The three stages in fallback order.  stage 0 is the terminal failure
\* ("failed to parse generated questions").
TolerantParse(s) ==
  IF JsonParse(s).ok THEN [stage |-> 1, val |-> JsonParse(s).val]
  ELSE IF JsonParse(FixedOutput(s)).ok THEN [stage |-> 2, val |-> JsonParse(FixedOutput(s)).val]
  ELSE IF Matches(s) # << >> /\ JsonParse(Joined(s)).ok
       THEN [stage |-> 3, val |-> JsonParse(Joined(s)).val]
  ELSE [stage |-> 0, val |-> JNull]

\* if (!Array.isArray(generatedQuestions)) generatedQuestions = [generatedQuestions]
AsArray(v) == IF v.type = "array" THEN v.elems ELSE <<v>>

\* ------------------------------------------------------------------------
\* Question validator / sanitizer: route.ts lines 115-152
\* ------------------------------------------------------------------------
SeqContains(seq, x) == \E i \in 1..Len(seq) : seq[i] = x

\* HasFourOptions that accepts any non-empty options array
HasSomeOptions(q) == "options" \in q.keys /\ Len(q.options) >= 1

\* Array.isArray(q.options) && q.options.length >= 4
HasFourOptions(q) == "options" \in q.keys /\ Len(q.options) >= 4

\* q.options on a null element throws a TypeError inside the filter callback
FilterThrows(generated) == \E i \in 1..Len(generated) : generated[i].type = "null"

FilterQuestions(generated) == SelectSeq(generated, HasFourOptions)

DefaultOptions == <<"Option A", "Option B", "Option C", "Option D">>

DefaultPoints == 10

DefaultDuration == 10

DocOptions(q) == IF HasFourOptions(q) THEN q.options ELSE DefaultOptions

\* DocAnswer without the options.includes test
DocAnswerUnchecked(q) ==
  IF "correct_answer" \in q.keys /\ q.correct_answer # ""
  THEN q.correct_answer
  ELSE DocOptions(q)[1]

\* (q.correct_answer && options.includes(q.correct_answer)) ? q.correct_answer : options[0]
DocAnswer(q) ==
  IF /\ "correct_answer" \in q.keys
     /\ q.correct_answer # ""
     /\ SeqContains(DocOptions(q), q.correct_answer)
  THEN q.correct_answer
  ELSE DocOptions(q)[1]

\* questionConfigs[index]?.points || 10, with entries[i] the points value of
\* the i-th configuration object (index = i - 1)
DocPoints(entries, i) ==
  IF i <= Len(entries) /\ entries[i] # 0 THEN entries[i] ELSE DefaultPoints

BuildDocs(quizId, filtered, entries) ==
  [i \in 1..Len(filtered) |->
     [quiz_id |-> quizId,
      question_type |-> "MCQ",
      options |-> DocOptions(filtered[i]),
      correct_answer |-> DocAnswer(filtered[i]),
      points |-> DocPoints(entries, i)]]

\* TotalQuizPoints that leaves the last document out
RECURSIVE TotalSkipsLast(_)
TotalSkipsLast(docs) ==
  IF Len(docs) <= 1 THEN 0
  ELSE TotalSkipsLast(SubSeq(docs, 1, Len(docs) - 1)) + docs[Len(docs) - 1].points

\* questionDocs.reduce((sum, q) => sum + q.points, 0)
RECURSIVE TotalQuizPoints(_)
TotalQuizPoints(docs) ==
  IF docs = << >> THEN 0
  ELSE TotalQuizPoints(SubSeq(docs, 1, Len(docs) - 1)) + docs[Len(docs)].points

\* ------------------------------------------------------------------------
\* Responses
\* ------------------------------------------------------------------------
Response(status, error) == [status |-> status, error |-> error]

NoResponse == Response(0, "")

MissingFields == Response(400, "missing required fields")

NotAuthenticated == Response(401, "user is not authenticated")

InvalidToken == Response(401, "invalid or expired token")

NoUserInToken == Response(401, "could not determine user from token")

NoGithubToken == Response(500, "github token not configured")

NoAiOutput == Response(500, "no ai output returned")

\* ParseFailed left to the catch-all
ParseFailedGeneric == Response(500, "internal server error")

ParseFailed == Response(500, "failed to parse generated questions")

NoValidQuestions == Response(500, "failed to generate valid multiple choice questions")

InternalServerError == Response(500, "internal server error")

Created == Response(201, "")

\* ------------------------------------------------------------------------
\* Bounds and input sets
\* ------------------------------------------------------------------------
NumReqs == 2

MaxQuestions == 2

MaxConfigs == 2

NumCodes == 2

MaxAttempts == 3

Reqs == 1..NumReqs

Codes == 1..NumCodes

\* rehost invocations (rehostQuiz of an existing quiz)
NumRehosts == 1

Hosts == 1..NumRehosts

\* the duration, in minutes, the collection page sends with a rehost
RehostDuration == 10

PointValues == {-2, 0, 3}

RECURSIVE SeqsUpTo(_, _)
SeqsUpTo(S, n) ==
  IF n = 0 THEN {<< >>}
  ELSE LET shorter == SeqsUpTo(S, n - 1)
       IN  shorter \cup {Append(t, a) : t \in {u \in shorter : Len(u) = n - 1}, a \in S}

TextsUpTo(alphabet, n) == SeqsUpTo(alphabet, n)

\* what the request body gives for questionConfigs: absent, or a list of
\* configuration objects (each reduced to its points value)
NoConfigs == [supplied |-> FALSE, entries |-> << >>]

ConfigLists(n) == {[supplied |-> TRUE, entries |-> e] : e \in SeqsUpTo(PointValues, n)}

\* texts of the generative backend: the items of the answer written as a
\* clean array, as a fenced json block, concatenated without separators, or
\* embedded in prose
ItemText(item) == IF item = "null" THEN <<"null">> ELSE <<"{", item, "}">>

RECURSIVE Render(_, _, _)
Render(items, before, between) ==
  IF items = << >> THEN << >>
  ELSE IF Len(items) = 1 THEN before \o ItemText(items[1])
  ELSE before \o ItemText(items[1]) \o between \o Render(Tail(items), << >>, between)

ArrayText(items) == <<"[">> \o Render(items, << >>, <<",">>) \o <<"]">>

FencedText(items) == <<FENCE, "json", WS>> \o ArrayText(items) \o <<WS, FENCE>>

ConcatText(items) == Render(items, << >>, <<WS>>)

ProseText(items) == Render(items, <<"x">>, <<"x">>)

ItemKinds == {"mGood", "mOut", "mNoAns", "mDup", "mShort", "null"}

ModelOutputs ==
  LET lists == SeqsUpTo(ItemKinds, MaxQuestions)
      plain == SeqsUpTo({"mGood", "mShort"}, MaxQuestions)
  IN  {ArrayText(l) : l \in lists} \cup {FencedText(l) : l \in plain}
        \cup {ConcatText(l) : l \in plain} \cup {ProseText(l) : l \in plain}

SmallConfigs == {[supplied |-> TRUE, entries |-> <<3>>]}

SmallOutputs ==
  {<< >>, <<"x">>, ArrayText(<<"mShort">>), ArrayText(<<"mGood">>)}

\* ------------------------------------------------------------------------
\* State
\* ------------------------------------------------------------------------
VARIABLES
  pc,                  \* per request: the await the handler is suspended at
  questionConfigs,     \* per request: questionConfigs of the request body
  generatedQuestions,  \* per request: the parsed candidates (an array)
  recovered,           \* per request: parser stage that produced them, 0 = none
  filteredQuestions,   \* per request: candidates with at least 4 options
  questionDocs,        \* per request: the documents handed to insertMany
  newQuiz,             \* per request: the in-memory Quiz document
  joinCode,            \* per request: candidate join code of the new session
  attempts,            \* per request: join codes tried so far
  response,            \* per request: the HTTP response returned
  kind,                \* per request: the failure kind behind the response
  writes,              \* per request: durable writes performed, in order
  quizzes,             \* store: quiz id -> Quiz document
  questions,           \* store: quiz id -> Question documents of that quiz
  sessions,            \* store: set of Session documents
  hpc,                 \* per rehost: the await rehostQuiz is suspended at
  hquiz,               \* per rehost: the quiz being rehosted
  hcode,               \* per rehost: candidate join code of the new session
  hattempts,           \* per rehost: join codes tried so far
  hresult,             \* per rehost: how the rehost ended
  raw, once, twice, stage, candidates, passes   \* text pipeline on its own

handlerVars ==
  <<pc, questionConfigs, generatedQuestions, recovered, filteredQuestions,
    questionDocs, newQuiz, joinCode, attempts, response, kind, writes,
    quizzes, questions, sessions, hpc, hquiz, hcode, hattempts, hresult>>

rehostVars == <<hpc, hquiz, hcode, hattempts, hresult>>

textVars == <<raw, once, twice, stage, candidates, passes>>

vars == <<handlerVars, textVars>>

NoQuiz == [total_points |-> 0, duration |-> 0]

\* an earlier quiz (id 0) left in the store by a request that failed after
\* its first write
OldQuiz == [total_points |-> 0, duration |-> DefaultDuration]

\* join codes already held by active sessions of the earlier quiz
OldSession(c) ==
  [session_id |-> 0 - c, quiz_id |-> 0, join_code |-> c, is_active |-> TRUE,
   window_ms |-> DefaultDuration * 60000]

HandlerInit ==
  /\ pc = [r \in Reqs |-> "idle"]
  /\ questionConfigs = [r \in Reqs |-> NoConfigs]
  /\ generatedQuestions = [r \in Reqs |-> << >>]
  /\ recovered = [r \in Reqs |-> 0]
  /\ filteredQuestions = [r \in Reqs |-> << >>]
  /\ questionDocs = [r \in Reqs |-> << >>]
  /\ newQuiz = [r \in Reqs |-> NoQuiz]
  /\ joinCode = [r \in Reqs |-> 0]
  /\ attempts = [r \in Reqs |-> 0]
  /\ response = [r \in Reqs |-> NoResponse]
  /\ kind = [r \in Reqs |-> "none"]
  /\ writes = [r \in Reqs |-> << >>]
  /\ hpc = [h \in Hosts |-> "idle"]
  /\ hquiz = [h \in Hosts |-> 0]
  /\ hcode = [h \in Hosts |-> 0]
  /\ hattempts = [h \in Hosts |-> 0]
  /\ hresult = [h \in Hosts |-> "none"]

EmptyStore ==
  /\ quizzes = [q \in {} |-> NoQuiz]
  /\ questions = [q \in {} |-> << >>]
  /\ sessions = {}

TextIdle ==
  /\ raw = << >>
  /\ once = << >>
  /\ twice = << >>
  /\ stage = 0
  /\ candidates = << >>
  /\ passes = 0

\* ------------------------------------------------------------------------
\* The handler, one action per stretch of code between two awaits
\* ------------------------------------------------------------------------
\* return NextResponse.json(...): the request ends with response resp
Return(r, resp, k) ==
  /\ pc' = [pc EXCEPT ![r] = "done"]
  /\ response' = [response EXCEPT ![r] = resp]
  /\ kind' = [kind EXCEPT ![r] = k]

\* lines 16-18: the handler starts and calls request.json(); it is suspended
\* until the body has been read
Arrive(r) ==
  /\ pc[r] = "idle"
  /\ pc' = [pc EXCEPT ![r] = "awaitBody"]
  /\ UNCHANGED <<questionConfigs, generatedQuestions, recovered, filteredQuestions,
                 questionDocs, newQuiz, joinCode, attempts, response, kind, writes,
                 quizzes, questions, sessions>>
  /\ UNCHANGED rehostVars
  /\ UNCHANGED textVars

\* line 18 rejects: the body is not JSON; caught at line 182
BodyRejects(r) ==
  /\ pc[r] = "awaitBody"
  /\ Return(r, InternalServerError, "InputError")
  /\ UNCHANGED <<questionConfigs, generatedQuestions, recovered, filteredQuestions,
                 questionDocs, newQuiz, joinCode, attempts, writes, quizzes,
                 questions, sessions>>
  /\ UNCHANGED rehostVars
  /\ UNCHANGED textVars

\* what request.json() can resolve to: JSON null, or a value whose members
\* can be read
BodyKinds == {"null", "object"}

\* lines 18-62: the body was read; destructure it, check the fields, the
\* cookie, the token and the backend credential, then call the generative
\* backend.  Destructuring null throws a TypeError, caught at line 182.
\* fields: topic and numQuestions both truthy; auth: what the cookie and the
\* token verification give; github: GITHUB_TOKEN is set.
BodyRead(r, body, fields, auth, github, configs) ==
  /\ pc[r] = "awaitBody"
  /\ body \in BodyKinds
  /\ IF body = "null" THEN
          /\ Return(r, InternalServerError, "InputError")
          /\ UNCHANGED questionConfigs
     ELSE /\ questionConfigs' = [questionConfigs EXCEPT ![r] = configs]
          /\ IF ~fields THEN Return(r, MissingFields, "InputError")
             ELSE IF auth = "nocookie" THEN Return(r, NotAuthenticated, "AuthError")
             ELSE IF auth = "badtoken" THEN Return(r, InvalidToken, "AuthError")
             ELSE IF auth = "noid" THEN Return(r, NoUserInToken, "AuthError")
             ELSE IF ~github THEN Return(r, NoGithubToken, "ConfigError")
             ELSE /\ pc' = [pc EXCEPT ![r] = "awaitModel"]
                  /\ UNCHANGED <<response, kind>>
  /\ UNCHANGED <<generatedQuestions, recovered, filteredQuestions, questionDocs,
                 newQuiz, joinCode, attempts, writes, quizzes, questions, sessions>>
  /\ UNCHANGED rehostVars
  /\ UNCHANGED textVars

\* line 62 rejects: the backend is unreachable or errors; caught at line 182
ModelThrows(r) ==
  /\ pc[r] = "awaitModel"
  /\ Return(r, InternalServerError, "UpstreamError")
  /\ UNCHANGED <<questionConfigs, generatedQuestions, recovered, filteredQuestions,
                 questionDocs, newQuiz, joinCode, attempts, writes, quizzes,
                 questions, sessions>>
  /\ UNCHANGED rehostVars
  /\ UNCHANGED textVars

\* lines 73-135: the backend answers with content `output` (the empty text
\* stands for empty or absent content); normalise, parse, filter, build the
\* Quiz document and call save.
ModelReplies(r, output, duration) ==
  /\ pc[r] = "awaitModel"
  /\ LET text == Normalize(output)
         parsed == TolerantParse(text)
         generated == AsArray(parsed.val)
     IN  IF output = << >> THEN
              /\ Return(r, NoAiOutput, "UpstreamError")
              /\ UNCHANGED <<generatedQuestions, recovered, filteredQuestions, newQuiz>>
         ELSE IF parsed.stage = 0 THEN
              /\ Return(r, ParseFailed, "ParseFailure")
              /\ UNCHANGED <<generatedQuestions, recovered, filteredQuestions, newQuiz>>
         ELSE IF FilterThrows(generated) THEN
              /\ Return(r, InternalServerError, "TypeError")
              /\ generatedQuestions' = [generatedQuestions EXCEPT ![r] = generated]
              /\ recovered' = [recovered EXCEPT ![r] = parsed.stage]
              /\ UNCHANGED <<filteredQuestions, newQuiz>>
         ELSE IF FilterQuestions(generated) = << >> THEN
              /\ Return(r, NoValidQuestions, "ValidationExhaustion")
              /\ generatedQuestions' = [generatedQuestions EXCEPT ![r] = generated]
              /\ recovered' = [recovered EXCEPT ![r] = parsed.stage]
              /\ UNCHANGED <<filteredQuestions, newQuiz>>
         ELSE /\ generatedQuestions' = [generatedQuestions EXCEPT ![r] = generated]
              /\ recovered' = [recovered EXCEPT ![r] = parsed.stage]
              /\ filteredQuestions' = [filteredQuestions EXCEPT ![r] = FilterQuestions(generated)]
              /\ newQuiz' = [newQuiz EXCEPT ![r] =
                    [total_points |-> 0,
                     duration |-> IF duration # 0 THEN duration ELSE DefaultDuration]]
              /\ pc' = [pc EXCEPT ![r] = "awaitQuizSave"]
              /\ UNCHANGED <<response, kind>>
  /\ UNCHANGED <<questionConfigs, questionDocs, joinCode, attempts, writes,
                 quizzes, questions, sessions>>
  /\ UNCHANGED rehostVars
  /\ UNCHANGED textVars

\* StorageFails that deletes the quiz and its questions again
StorageFailsRollsBack(r) ==
  /\ pc[r] \in {"awaitQuizSave", "awaitInsert", "awaitUpdate", "awaitCodeCheck",
              "awaitSessionSave"}
  /\ pc' = [pc EXCEPT ![r] = "done"]
  /\ response' = [response EXCEPT ![r] = Response(500, "internal server error")]
  /\ kind' = [kind EXCEPT ![r] = "PersistenceError"]
  /\ quizzes' = [q \in DOMAIN quizzes \ {r} |-> quizzes[q]]
  /\ questions' = [q \in DOMAIN questions \ {r} |-> questions[q]]
  /\ UNCHANGED <<questionConfigs, generatedQuestions, recovered, filteredQuestions,
                 questionDocs, newQuiz, joinCode, attempts, writes, sessions>>
  /\ UNCHANGED rehostVars
  /\ UNCHANGED textVars

\* a storage write rejects: the exception reaches the catch at line 182;
\* nothing written before is undone
StorageFails(r) ==
  /\ pc[r] \in {"awaitQuizSave", "awaitInsert", "awaitUpdate", "awaitCodeCheck",
              "awaitSessionSave"}
  /\ Return(r, InternalServerError, "PersistenceError")
  /\ UNCHANGED <<questionConfigs, generatedQuestions, recovered, filteredQuestions,
                 questionDocs, newQuiz, joinCode, attempts, writes, quizzes,
                 questions, sessions>>
  /\ UNCHANGED rehostVars
  /\ UNCHANGED textVars

\* lines 135-156: the quiz is stored (the request's index serves as its id);
\* build questionDocs and call insertMany.  questionConfigs[index] throws a
\* TypeError when the body carried no questionConfigs.
QuizSaved(r) ==
  /\ pc[r] = "awaitQuizSave"
  /\ quizzes' = [q \in DOMAIN quizzes \cup {r} |-> IF q = r THEN newQuiz[r] ELSE quizzes[q]]
  /\ writes' = [writes EXCEPT ![r] = Append(@, "createQuiz")]
  /\ IF ~questionConfigs[r].supplied THEN
          /\ Return(r, InternalServerError, "TypeError")
          /\ UNCHANGED questionDocs
     ELSE /\ questionDocs' = [questionDocs EXCEPT ![r] =
                BuildDocs(r, filteredQuestions[r], questionConfigs[r].entries)]
          /\ pc' = [pc EXCEPT ![r] = "awaitInsert"]
          /\ UNCHANGED <<response, kind>>
  /\ UNCHANGED <<questionConfigs, generatedQuestions, recovered, filteredQuestions,
                 newQuiz, joinCode, attempts, questions, sessions>>
  /\ UNCHANGED rehostVars
  /\ UNCHANGED textVars

\* lines 156-160: the questions are stored; total the points, set them on
\* the quiz and call save
QuestionsInserted(r) ==
  /\ pc[r] = "awaitInsert"
  /\ questions' = [q \in DOMAIN questions \cup {r} |->
                     IF q = r THEN questionDocs[r] ELSE questions[q]]
  /\ writes' = [writes EXCEPT ![r] = Append(@, "insertQuestions")]
  /\ newQuiz' = [newQuiz EXCEPT ![r].total_points = TotalQuizPoints(questionDocs[r])]
  /\ pc' = [pc EXCEPT ![r] = "awaitUpdate"]
  /\ UNCHANGED <<questionConfigs, generatedQuestions, recovered, filteredQuestions,
                 questionDocs, joinCode, attempts, response, kind, quizzes, sessions>>
  /\ UNCHANGED rehostVars
  /\ UNCHANGED textVars

\* Session model: a fresh join code for the session about to be saved
FreshCode(c) == c \in Codes

\* lines 160-170: the quiz update is stored; build the Session and call
\* save, which first draws a join code and looks it up
QuizUpdated(r, c) ==
  /\ pc[r] = "awaitUpdate"
  /\ FreshCode(c)
  /\ quizzes' = [quizzes EXCEPT ![r] = newQuiz[r]]
  /\ writes' = [writes EXCEPT ![r] = Append(@, "updateQuiz")]
  /\ joinCode' = [joinCode EXCEPT ![r] = c]
  /\ attempts' = [attempts EXCEPT ![r] = 1]
  /\ pc' = [pc EXCEPT ![r] = "awaitCodeCheck"]
  /\ UNCHANGED <<questionConfigs, generatedQuestions, recovered, filteredQuestions,
                 questionDocs, newQuiz, response, kind, questions, sessions>>
  /\ UNCHANGED rehostVars
  /\ UNCHANGED textVars

\* Session model: an active session already holds join code c
CodeTaken(c) == \E s \in sessions : s.is_active /\ s.join_code = c

\* Session model: the candidate collided (at the lookup, or at the write);
\* draw again, or give up with a capacity error once MaxAttempts codes were
\* tried.  The error is thrown out of save and caught at line 182.
Collided(r, c) ==
  IF attempts[r] >= MaxAttempts THEN
       /\ Return(r, InternalServerError, "JoinCodeCapacityError")
       /\ UNCHANGED <<joinCode, attempts>>
  ELSE /\ joinCode' = [joinCode EXCEPT ![r] = c]
       /\ attempts' = [attempts EXCEPT ![r] = @ + 1]
       /\ pc' = [pc EXCEPT ![r] = "awaitCodeCheck"]
       /\ UNCHANGED <<response, kind>>

\* Session model: the lookup of the candidate among the active sessions
\* answers
CodeChecked(r, c) ==
  /\ pc[r] = "awaitCodeCheck"
  /\ FreshCode(c)
  /\ IF CodeTaken(joinCode[r]) THEN Collided(r, c)
     ELSE /\ pc' = [pc EXCEPT ![r] = "awaitSessionSave"]
          /\ UNCHANGED <<joinCode, attempts, response, kind>>
  /\ UNCHANGED <<questionConfigs, generatedQuestions, recovered, filteredQuestions,
                 questionDocs, newQuiz, writes, quizzes, questions, sessions>>
  /\ UNCHANGED rehostVars
  /\ UNCHANGED textVars

\* StoreRefuses without the uniqueness guard
StoreNeverRefuses(c) == FALSE

\* Session model: the store refuses a session whose join code an active
\* session holds (uniqueness guard at the storage boundary)
StoreRefuses(c) == CodeTaken(c)

\* lines 164-181: the session write reaches the store; stored, the handler
\* answers 201 with the ids and the join code
SessionSaved(r, c) ==
  /\ pc[r] = "awaitSessionSave"
  /\ FreshCode(c)
  /\ IF StoreRefuses(joinCode[r]) THEN
          /\ Collided(r, c)
          /\ UNCHANGED <<sessions, writes>>
     ELSE /\ sessions' = sessions \cup
                {[session_id |-> r, quiz_id |-> r, join_code |-> joinCode[r],
                  is_active |-> TRUE, window_ms |-> newQuiz[r].duration * 60000]}
          /\ writes' = [writes EXCEPT ![r] = Append(@, "createSession")]
          /\ Return(r, Created, "none")
          /\ UNCHANGED <<joinCode, attempts>>
  /\ UNCHANGED <<questionConfigs, generatedQuestions, recovered, filteredQuestions,
                 questionDocs, newQuiz, quizzes, questions>>
  /\ UNCHANGED rehostVars
  /\ UNCHANGED textVars

\* ------------------------------------------------------------------------
\* rehostQuiz: a new session, with its own join code, for a quiz the store
\* already holds (POST /api/quizzes/rehost, sent by the collection page with
\* the quiz id and a duration of 10 minutes).  It reuses the session creation
\* of generateQuiz and touches no other record.
\* ------------------------------------------------------------------------
\* the rehost starts: the quiz exists; the session save draws a join code
\* and looks it up
RehostStart(h, q, c) ==
  /\ hpc[h] = "idle"
  /\ q \in DOMAIN quizzes
  /\ FreshCode(c)
  /\ hquiz' = [hquiz EXCEPT ![h] = q]
  /\ hcode' = [hcode EXCEPT ![h] = c]
  /\ hattempts' = [hattempts EXCEPT ![h] = 1]
  /\ hpc' = [hpc EXCEPT ![h] = "awaitCodeCheck"]
  /\ UNCHANGED hresult
  /\ UNCHANGED <<pc, questionConfigs, generatedQuestions, recovered, filteredQuestions,
                 questionDocs, newQuiz, joinCode, attempts, response, kind, writes,
                 quizzes, questions, sessions>>
  /\ UNCHANGED textVars

\* the candidate of a rehost collided: draw again, or give up with the
\* capacity error once MaxAttempts codes were tried
RehostCollided(h, c) ==
  IF hattempts[h] >= MaxAttempts THEN
       /\ hpc' = [hpc EXCEPT ![h] = "done"]
       /\ hresult' = [hresult EXCEPT ![h] = "JoinCodeCapacityError"]
       /\ UNCHANGED <<hcode, hattempts>>
  ELSE /\ hcode' = [hcode EXCEPT ![h] = c]
       /\ hattempts' = [hattempts EXCEPT ![h] = @ + 1]
       /\ hpc' = [hpc EXCEPT ![h] = "awaitCodeCheck"]
       /\ UNCHANGED hresult

\* the lookup of the rehost's candidate among the active sessions answers
RehostCodeChecked(h, c) ==
  /\ hpc[h] = "awaitCodeCheck"
  /\ FreshCode(c)
  /\ IF CodeTaken(hcode[h]) THEN RehostCollided(h, c)
     ELSE /\ hpc' = [hpc EXCEPT ![h] = "awaitSessionSave"]
          /\ UNCHANGED <<hcode, hattempts, hresult>>
  /\ UNCHANGED hquiz
  /\ UNCHANGED <<pc, questionConfigs, generatedQuestions, recovered, filteredQuestions,
                 questionDocs, newQuiz, joinCode, attempts, response, kind, writes,
                 quizzes, questions, sessions>>
  /\ UNCHANGED textVars

\* the session write of a rehost reaches the store
RehostSessionSaved(h, c) ==
  /\ hpc[h] = "awaitSessionSave"
  /\ FreshCode(c)
  /\ IF StoreRefuses(hcode[h]) THEN
          /\ RehostCollided(h, c)
          /\ UNCHANGED sessions
     ELSE /\ sessions' = sessions \cup
                {[session_id |-> NumReqs + h, quiz_id |-> hquiz[h],
                  join_code |-> hcode[h], is_active |-> TRUE,
                  window_ms |-> RehostDuration * 60000]}
          /\ hpc' = [hpc EXCEPT ![h] = "done"]
          /\ hresult' = [hresult EXCEPT ![h] = "created"]
          /\ UNCHANGED <<hcode, hattempts>>
  /\ UNCHANGED hquiz
  /\ UNCHANGED <<pc, questionConfigs, generatedQuestions, recovered, filteredQuestions,
                 questionDocs, newQuiz, joinCode, attempts, response, kind, writes,
                 quizzes, questions>>
  /\ UNCHANGED textVars

\* a storage call of a rehost rejects: the rehost fails, nothing is stored
RehostStorageFails(h) ==
  /\ hpc[h] \in {"awaitCodeCheck", "awaitSessionSave"}
  /\ hpc' = [hpc EXCEPT ![h] = "done"]
  /\ hresult' = [hresult EXCEPT ![h] = "PersistenceError"]
  /\ UNCHANGED <<hquiz, hcode, hattempts>>
  /\ UNCHANGED <<pc, questionConfigs, generatedQuestions, recovered, filteredQuestions,
                 questionDocs, newQuiz, joinCode, attempts, response, kind, writes,
                 quizzes, questions, sessions>>
  /\ UNCHANGED textVars

\* the steps of the rehost invocations
Rehost ==
  \E h \in Hosts :
     \/ \E q \in DOMAIN quizzes, c \in Codes : RehostStart(h, q, c)
     \/ \E c \in Codes : RehostCodeChecked(h, c)
     \/ \E c \in Codes : RehostSessionSaved(h, c)
     \/ RehostStorageFails(h)

\* ------------------------------------------------------------------------
\* Spec: one request against an empty store, over every backend text and
\* request body of the input sets, with rehosts of the quiz it stores
\* ------------------------------------------------------------------------
Init ==
  /\ HandlerInit
  /\ EmptyStore
  /\ TextIdle

Next ==
  \/ \E r \in {1} :
     \/ Arrive(r)
     \/ BodyRejects(r)
     \/ \E body \in BodyKinds, fields \in BOOLEAN,
          auth \in {"ok", "nocookie", "badtoken", "noid"},
          github \in BOOLEAN, configs \in ConfigLists(MaxConfigs) \cup {NoConfigs} :
            BodyRead(r, body, fields, auth, github, configs)
     \/ ModelThrows(r)
     \/ \E output \in ModelOutputs, duration \in {0, 5} : ModelReplies(r, output, duration)
     \/ StorageFails(r)
     \/ QuizSaved(r)
     \/ QuestionsInserted(r)
     \/ \E c \in Codes : QuizUpdated(r, c)
     \/ \E c \in Codes : CodeChecked(r, c)
     \/ \E c \in Codes : SessionSaved(r, c)
  \/ Rehost

Spec == Init /\ [][Next]_vars

\* ------------------------------------------------------------------------
\* SpecConc: every request and rehost runs, interleaved at the awaits,
\* against a store that holds an earlier quiz whose sessions already hold
\* some of the join codes
\* ------------------------------------------------------------------------
ConcInit ==
  /\ HandlerInit
  /\ quizzes = [q \in {0} |-> OldQuiz]
  /\ questions = [q \in {0} |-> << >>]
  /\ \E held \in SUBSET Codes : sessions = {OldSession(c) : c \in held}
  /\ TextIdle

ConcNext ==
  \/ \E r \in Reqs :
       \/ Arrive(r)
       \/ BodyRejects(r)
       \/ \E body \in BodyKinds, fields \in BOOLEAN, configs \in SmallConfigs :
            BodyRead(r, body, fields, "ok", TRUE, configs)
       \/ ModelThrows(r)
       \/ \E output \in SmallOutputs : ModelReplies(r, output, 5)
       \/ StorageFails(r)
       \/ QuizSaved(r)
       \/ QuestionsInserted(r)
       \/ \E c \in Codes : QuizUpdated(r, c)
       \/ \E c \in Codes : CodeChecked(r, c)
       \/ \E c \in Codes : SessionSaved(r, c)
  \/ Rehost

SpecConc == ConcInit /\ [][ConcNext]_vars

\* ------------------------------------------------------------------------
\* SpecNorm: the normalizer alone, on any raw text over the fence alphabet,
\* applied once and then to its own output
\* ------------------------------------------------------------------------
MaxNormLen == 7

NormTokens == {FENCE, "json", WS, "x"}

HandlerIdle ==
  /\ HandlerInit
  /\ EmptyStore

NormInit ==
  /\ HandlerIdle
  /\ raw \in SeqsUpTo(NormTokens, MaxNormLen)
  /\ once = raw
  /\ twice = raw
  /\ stage = 0
  /\ candidates = << >>
  /\ passes = 0

NormFirst ==
  /\ passes = 0
  /\ once' = Normalize(raw)
  /\ twice' = Normalize(raw)
  /\ passes' = 1
  /\ UNCHANGED <<raw, stage, candidates>>
  /\ UNCHANGED handlerVars

NormSecond ==
  /\ passes = 1
  /\ twice' = Normalize(once)
  /\ passes' = 2
  /\ UNCHANGED <<raw, once, stage, candidates>>
  /\ UNCHANGED handlerVars

NormNext == NormFirst \/ NormSecond

SpecNorm == NormInit /\ [][NormNext]_vars

\* ------------------------------------------------------------------------
\* SpecParse: normalizer and tolerant parser on any text over the JSON
\* alphabet
\* ------------------------------------------------------------------------
MaxParseLen == 4

ParseTokens == {WS, "[", "]", "{", "}", ",", "null", "x", "mGood", "mShort"}

ParseInit ==
  /\ HandlerIdle
  /\ raw \in SeqsUpTo(ParseTokens, MaxParseLen)
  /\ once = raw
  /\ twice = raw
  /\ stage = 0
  /\ candidates = << >>
  /\ passes = 0

ParseRun ==
  /\ passes = 1
  /\ stage' = TolerantParse(once).stage
  /\ candidates' = IF TolerantParse(once).stage = 0 THEN << >>
                   ELSE AsArray(TolerantParse(once).val)
  /\ passes' = 2
  /\ UNCHANGED <<raw, once, twice>>
  /\ UNCHANGED handlerVars

ParseNext == NormFirst \/ ParseRun

SpecParse == ParseInit /\ [][ParseNext]_vars

\* ------------------------------------------------------------------------
\* Properties
\* ------------------------------------------------------------------------
Done(r) == pc[r] = "done"

StoredDocs == UNION {{questions[q][i] : i \in 1..Len(questions[q])} : q \in DOMAIN questions}

BuiltDocs == UNION {{questionDocs[r][i] : i \in 1..Len(questionDocs[r])} : r \in Reqs}

\* the candidate's own correct_answer is unusable: missing, empty, or not
\* one of its options
AnswerUnusable(q) ==
  \/ "correct_answer" \notin q.keys
  \/ q.correct_answer = ""
  \/ ~SeqContains(q.options, q.correct_answer)

\* C1: every question document built from a candidate that passed the
\* four-options filter has its correct_answer among its options; when the
\* candidate's own correct_answer was missing, empty or not among its
\* options, the document's correct_answer is the first option.
C1_AnswerAmongOptions ==
  /\ \A d \in BuiltDocs \cup StoredDocs : SeqContains(d.options, d.correct_answer)
  /\ \A r \in Reqs : \A i \in 1..Len(questionDocs[r]) :
       AnswerUnusable(filteredQuestions[r][i])
         => questionDocs[r][i].correct_answer = questionDocs[r][i].options[1]

C1_Witness ==
  \E r \in Reqs : \E i \in 1..Len(questionDocs[r]) :
    /\ r \in DOMAIN questions
    /\ "correct_answer" \in filteredQuestions[r][i].keys
    /\ filteredQuestions[r][i].correct_answer = "z"
    /\ questions[r][i].correct_answer = "a"
    /\ questions[r][i].options = <<"a", "b", "c", "d">>

\* C2: when structure was recovered from the model output but no recovered
\* item has at least 4 options, the request ends with the "failed to
\* generate valid multiple choice questions" response and no quiz, question
\* or session is created.
C2_ZeroValidIsValidationExhaustion ==
  \A r \in Reqs :
    (/\ Done(r)
     /\ recovered[r] # 0
     /\ \A i \in 1..Len(generatedQuestions[r]) : ~HasFourOptions(generatedQuestions[r][i]))
    => /\ response[r] = NoValidQuestions
       /\ r \notin DOMAIN quizzes
       /\ r \notin DOMAIN questions
       /\ \A s \in sessions : s.quiz_id # r

RECURSIVE SumPoints(_)
SumPoints(docs) == IF docs = << >> THEN 0 ELSE docs[1].points + SumPoints(Tail(docs))

\* C3: on success the stored quiz's total_points is the sum of the points of
\* the questions stored for it, and the number of stored questions is the
\* number of recovered items with at least 4 options.
C3_TotalAndCount ==
  \A r \in Reqs :
    response[r] = Created
    => /\ r \in DOMAIN quizzes
       /\ r \in DOMAIN questions
       /\ quizzes[r].total_points = SumPoints(questions[r])
       /\ Len(questions[r]) =
            Cardinality({i \in 1..Len(generatedQuestions[r]) :
                           HasFourOptions(generatedQuestions[r][i])})

C3_Witness ==
  \E r \in Reqs :
    /\ response[r] = Created
    /\ Len(generatedQuestions[r]) = 2
    /\ Len(questions[r]) = 2
    /\ questions[r][1].points = -2
    /\ questions[r][2].points = DefaultPoints
    /\ quizzes[r].total_points = 8

TaxonomyKinds ==
  {"InputError", "UpstreamError", "ParseFailure", "ValidationExhaustion",
   "PersistenceError", "JoinCodeCapacityError"}

\* kinds that reach the caller through the catch-all of line 182
CatchAllKinds ==
  {"InputError", "UpstreamError", "PersistenceError", "JoinCodeCapacityError",
   "TypeError"}

\* C4 as stated: every failure kind has a response of its own, and none is
\* the generic "internal server error".
C4_EveryKindDistinct ==
  /\ \A r \in Reqs : kind[r] \in TaxonomyKinds => response[r] # InternalServerError
  /\ \A r1, r2 \in Reqs :
       (kind[r1] \in TaxonomyKinds /\ kind[r2] \in TaxonomyKinds /\ kind[r1] # kind[r2])
         => response[r1] # response[r2]

\* C4 amended: missing fields, an empty backend answer, ParseFailure and
\* ValidationExhaustion each have a response that no other kind produces; a
\* body that is not JSON or is JSON null, a rejected backend call,
\* PersistenceError and JoinCodeCapacityError all end in the generic 500
\* "internal server error", and only kinds caught at line 182 share a
\* response.
C4_DistinctUnlessCaught ==
  /\ \A r \in Reqs :
       /\ kind[r] = "InputError" => response[r] \in {MissingFields, InternalServerError}
       /\ kind[r] = "ParseFailure" => response[r] = ParseFailed
       /\ kind[r] = "ValidationExhaustion" => response[r] = NoValidQuestions
       /\ kind[r] = "UpstreamError" => response[r] \in {NoAiOutput, InternalServerError}
       /\ kind[r] \in {"PersistenceError", "JoinCodeCapacityError"}
            => response[r] = InternalServerError
       /\ response[r] = MissingFields => kind[r] = "InputError"
       /\ response[r] = NoAiOutput => kind[r] = "UpstreamError"
       /\ response[r] = ParseFailed => kind[r] = "ParseFailure"
       /\ response[r] = NoValidQuestions => kind[r] = "ValidationExhaustion"
  /\ \A r1, r2 \in Reqs :
       (/\ kind[r1] \in TaxonomyKinds
        /\ kind[r2] \in TaxonomyKinds
        /\ kind[r1] # kind[r2]
        /\ response[r1] = response[r2])
         => /\ response[r1] = InternalServerError
            /\ {kind[r1], kind[r2]} \subseteq CatchAllKinds

C4_Witness ==
  \E r1, r2 \in Reqs :
    /\ kind[r1] = "InputError"
    /\ questionConfigs[r1] = NoConfigs
    /\ kind[r2] = "JoinCodeCapacityError"
    /\ response[r1] = InternalServerError
    /\ response[r1] = response[r2]

\* C5: no two active sessions hold the same join code, however the
\* generate requests and the rehosts interleave; a colliding candidate is
\* drawn again, and after MaxAttempts candidates the session creation fails
\* with the capacity error and stores no session.
C5_UniqueActiveJoinCodes ==
  /\ \A s1, s2 \in sessions :
       (s1.is_active /\ s2.is_active /\ s1.join_code = s2.join_code) => s1 = s2
  /\ \A r \in Reqs :
       /\ attempts[r] <= MaxAttempts
       /\ kind[r] = "JoinCodeCapacityError"
            => (attempts[r] = MaxAttempts /\ \A s \in sessions : s.session_id # r)
  /\ \A h \in Hosts :
       /\ hattempts[h] <= MaxAttempts
       /\ hresult[h] = "JoinCodeCapacityError"
            => (/\ hattempts[h] = MaxAttempts
                /\ \A s \in sessions : s.session_id # NumReqs + h)

C5_Witness ==
  \E r1, r2 \in Reqs :
    /\ r1 # r2
    /\ response[r1] = Created
    /\ response[r2] = Created
    /\ attempts[r2] > 1
    /\ \E s1, s2 \in sessions :
         s1.session_id = r1 /\ s2.session_id = r2 /\ s1.join_code # s2.join_code

FenceCount(s) == Cardinality({i \in 1..Len(s) : s[i] = FENCE})

\* C6 as stated: normalising the normalizer's output changes nothing, for
\* every raw text.
C6_NormalizerIdempotent == passes = 2 => twice = once

\* a fence marker followed by the word json and, later, another marker: the
\* text holds a json-fenced block
HasJsonBlock(s) ==
  \E i, j \in 1..Len(s) :
    i + 1 < j /\ s[i] = FENCE /\ s[i + 1] = "json" /\ s[j] = FENCE

\* C6 amended: normalising the normalizer's output changes nothing exactly
\* when that output holds at most one fence marker, and that is the case
\* exactly for the raw texts with at most three markers, and for those with
\* four or five markers that hold a json-fenced block (one pass strips the
\* json block and a plain block); on every other raw text a second pass
\* strips another block.
C6_IdempotentIffNoBlockLeft ==
  passes = 2 =>
    /\ (twice = once) <=> (FenceCount(once) <= 1)
    /\ (FenceCount(once) <= 1)
         <=> \/ FenceCount(raw) <= 3
             \/ (FenceCount(raw) <= 5 /\ HasJsonBlock(raw))

C6_Witness ==
  /\ passes = 2
  /\ raw = <<FENCE, "json", "x", FENCE, FENCE, "x", FENCE>>
  /\ once = <<"x", "x">>
  /\ twice = once

OnlyBracketsAndSpace(s) == \A i \in 1..Len(s) : s[i] \in {"[", "]", WS}

\* C7 as stated: whenever one of the three parser stages succeeds, the
\* candidate sequence is non-empty.
C7_ParserSuccessNonEmpty ==
  (passes = 2 /\ stage \in {1, 2, 3}) => candidates # << >>

\* C7 amended: a success by object extraction (stage 3) gives a non-empty
\* candidate sequence; a direct parse succeeds with an empty sequence on a
\* text that is an empty array, and delimiter repair on the empty text.
C7_ExtractionNonEmpty ==
  passes = 2 =>
    /\ stage = 3 => candidates # << >>
    /\ (stage = 1 /\ candidates = << >>) => (once # << >> /\ OnlyBracketsAndSpace(once))
    /\ (stage = 2 /\ candidates = << >>) => once = << >>

C7_Witness ==
  /\ passes = 2
  /\ stage = 3
  /\ once = <<"x", "{", "mGood", "}">>
  /\ Len(candidates) = 1

\* C8: every candidate that passed the filter gets a question document,
\* whose points are those of the configuration at its position when that
\* entry is present and positive, and 10 otherwise (entry absent, zero,
\* negative, list too short, or no questionConfigs at all); so the points
\* are always positive.
C8_PointsFromConfigOrFallback ==
  \A r \in Reqs :
    /\ Len(writes[r]) >= 1 => Len(questionDocs[r]) = Len(filteredQuestions[r])
    /\ \A i \in 1..Len(questionDocs[r]) :
         LET e == questionConfigs[r].entries
         IN  /\ questionDocs[r][i].points =
                  IF questionConfigs[r].supplied /\ i <= Len(e) /\ e[i] > 0
                  THEN e[i] ELSE 10
             /\ questionDocs[r][i].points > 0

\* C9 as stated: every stored question has at least 4 options, pairwise
\* distinct and none empty.
C9_OptionsDistinctNonEmpty ==
  \A d \in StoredDocs :
    /\ Len(d.options) >= 4
    /\ \A i, j \in 1..Len(d.options) : d.options[i] = d.options[j] => i = j
    /\ \A i \in 1..Len(d.options) : d.options[i] # ""

\* C9 amended: every stored question has at least 4 options, and they are
\* the candidate's own options, entry for entry (so they may repeat or be
\* empty).
C9_AtLeastFourVerbatim ==
  \A r \in DOMAIN questions :
    /\ Len(questions[r]) = Len(filteredQuestions[r])
    /\ \A i \in 1..Len(questions[r]) :
         /\ Len(questions[r][i].options) >= 4
         /\ questions[r][i].options = filteredQuestions[r][i].options

C9_Witness ==
  \E r \in DOMAIN questions : \E i \in 1..Len(questions[r]) :
    /\ questions[r][i].options = <<"a", "a", "", "d">>
    /\ response[r] = Created

WriteOrder == <<"createQuiz", "insertQuestions", "updateQuiz", "createSession">>

IsPrefix(a, b) == Len(a) <= Len(b) /\ a = SubSeq(b, 1, Len(a))

\* what the store holds for request r, given the writes it has performed
StoreMatchesWrites(r) ==
  /\ IsPrefix(writes[r], WriteOrder)
  /\ r \in DOMAIN quizzes <=> Len(writes[r]) >= 1
  /\ Len(writes[r]) \in {1, 2} => quizzes[r].total_points = 0
  /\ r \in DOMAIN questions <=> Len(writes[r]) >= 2
  /\ Len(writes[r]) >= 2 => \A i \in 1..Len(questions[r]) : questions[r][i].quiz_id = r
  /\ Len(writes[r]) >= 3 => quizzes[r].total_points = SumPoints(questions[r])
  /\ (\E s \in sessions : s.session_id = r /\ s.quiz_id = r) <=> Len(writes[r]) = 4
  /\ (Done(r) /\ Len(writes[r]) < 4) => response[r].status >= 400
  /\ response[r] = Created => Len(writes[r]) = 4

NothingUndone ==
  /\ \A r \in Reqs : IsPrefix(writes[r], writes'[r])
  /\ \A q \in DOMAIN quizzes : q \in DOMAIN quizzes'
  /\ \A q \in DOMAIN questions : q \in DOMAIN questions' /\ questions'[q] = questions[q]
  /\ sessions \subseteq sessions'

\* C10: the durable writes of a request are a prefix of create quiz (with
\* total_points 0), insert questions, update total_points, create session;
\* the store holds exactly what those writes put there, a request that
\* stopped short reports failure, and no step ever removes or undoes an
\* earlier write.
C10_WritesArePrefixNoRollback ==
  /\ [](\A r \in Reqs : StoreMatchesWrites(r))
  /\ [][NothingUndone]_vars

C10_Witness ==
  \E r \in Reqs :
    /\ Done(r)
    /\ kind[r] = "PersistenceError"
    /\ writes[r] = <<"createQuiz", "insertQuestions">>
    /\ quizzes[r].total_points = 0
    /\ Len(questions[r]) = 2
    /\ response[r] = InternalServerError
    /\ sessions = {}

====
